---------------------------- MODULE Spec2Model ----------------------------
(***************************************************************************)
(* Model of the Universal Document Parser (document_parser.h).             *)
(*                                                                         *)
(* A std::string is a sequence of characters; a character is a one-letter  *)
(* TLA+ string ("a", ",", "\n").  The backtick cannot be written inside a  *)
(* TLA+ string literal, so it is the named character Backtick.             *)
(* A std::map<std::string,std::string> is a function from keys (the key    *)
(* literals of the source, written as TLA+ strings) to character           *)
(* sequences.  A call that may throw yields a record                       *)
(*   [threw |-> BOOLEAN, what |-> message, value |-> returned value].      *)
(* std::regex is libstdc++'s backtracking matcher: it recurses once per    *)
(* character it consumes, so a match attempt that consumes more characters *)
(* than the calling thread's stack has room for ends the process with      *)
(* SIGSEGV.  Such a call yields segv |-> TRUE; no exception is thrown and  *)
(* nothing is returned.  The room is the caller's: it depends on the size  *)
(* of the thread's stack and on how deep the caller already is, so it is   *)
(* an input of every call, like the file the call finds on the disk.  The  *)
(* stack a character costs also depends on the pattern and on the build,   *)
(* so the room in characters is given per std::regex_replace statement: a  *)
(* call's `rooms` is the sequence of the rooms its statements find.        *)
(***************************************************************************)
EXTENDS Naturals, Integers, Sequences, FiniteSets, TLC

VARIABLES
    parsers,    \* UniversalDocumentParser::parsers, the ordered extractor list
    last,       \* the most recent public call on the registry and its outcome
    earlier,    \* one remembered earlier parseDocument call (history), and how
                \* many calls followed it
    pc,         \* position of the algorithm run on its own
    stack,      \* the room the latest std::regex_replace statement of that run
                \* found on the stack, counted in characters one match attempt
                \* can consume
    arg,        \* the argument of that algorithm (a filename or a content buffer)
    i,          \* formatJSON: loop index (0-based, as in the source)
    result,     \* formatJSON / convertMarkdownToText: the local `result`
    indent,     \* formatJSON: the local `indent`
    inString,   \* formatJSON: the local `inString`
    emitted,    \* formatJSON: what the latest iteration appended to `result`
    out         \* the value (or exception) the algorithm ended with

vars == <<parsers, last, earlier, pc, stack, arg, i, result, indent, inString, emitted, out>>

---------------------------------------------------------------------------
(* Bounds of the model *)

\* longest filename, in tokens (see FilenameTokens)
MaxNameTokens == 3
\* longest content buffer drawn for the CSV parser
MaxCsvLen == 5
\* longest content buffer drawn for the JSON formatter
MaxJsonLen == 4
\* longest content buffer drawn for the XML/HTML text extractor
MaxXmlLen == 5
\* longest content buffer drawn for the Markdown converter, in tokens (see MdTokens)
MaxMdTokens == 4
\* the largest finite stack room a statement is given (see StackRooms)
MaxStackRoom == 5
\* the largest finite stack room a call on the registry is given (see RegistryRooms)
MaxRegistryRoom == 1

---------------------------------------------------------------------------
(* Characters and strings *)

Backtick == "BACKTICK"

\* '\v', which has no TLA+ escape either
VerticalTab == "VTAB"

\* all sequences over S of length 0..n
RECURSIVE SeqsUpTo(_, _)
SeqsUpTo(S, n) ==
    IF n = 0 THEN {<<>>}
    ELSE LET shorter == SeqsUpTo(S, n - 1)
         IN  shorter \cup {Append(s, c) : s \in {t \in shorter : Len(t) = n - 1}, c \in S}

\* concatenation of a sequence of strings
RECURSIVE Concat(_)
Concat(ss) == IF ss = <<>> THEN <<>> ELSE Head(ss) \o Concat(Tail(ss))

\* std::string(count, ch) with count passed as an int: a negative int converts
\* to a size_t above max_size() and the constructor throws std::length_error
\* (what() is the library's text; libstdc++ reports the failing member)
LengthErrorWhat ==
    <<"b", "a", "s", "i", "c", "_", "s", "t", "r", "i", "n", "g", ":", ":",
      "_", "M", "_", "c", "r", "e", "a", "t", "e">>

StringFill(count, ch) ==
    IF count < 0
        THEN [threw |-> TRUE, what |-> LengthErrorWhat, value |-> <<>>]
        ELSE [threw |-> FALSE, what |-> <<>>, value |-> [k \in 1..count |-> ch]]

\* std::to_string of a size_t / ptrdiff_t that is >= 0: its decimal digits
Digits == <<"0", "1", "2", "3", "4", "5", "6", "7", "8", "9">>

RECURSIVE to_string(_)
to_string(n) ==
    IF n < 10 THEN <<Digits[n + 1]>>
    ELSE to_string(n \div 10) \o <<Digits[(n % 10) + 1]>>

\* std::map::operator[] assignment
MapSet(m, k, v) == [x \in (DOMAIN m) \cup {k} |-> IF x = k THEN v ELSE m[x]]

EmptyMap == [x \in {} |-> <<>>]

---------------------------------------------------------------------------
(* DocumentParser: toLowerCase, getFileExtension, readFile *)

UpperLetters ==
    <<"A", "B", "C", "D", "E", "F", "G", "H", "I", "J", "K", "L", "M",
      "N", "O", "P", "Q", "R", "S", "T", "U", "V", "W", "X", "Y", "Z">>

LowerLetters ==
    <<"a", "b", "c", "d", "e", "f", "g", "h", "i", "j", "k", "l", "m",
      "n", "o", "p", "q", "r", "s", "t", "u", "v", "w", "x", "y", "z">>

\* ::tolower in the "C" locale
tolower(c) ==
    IF \E k \in 1..26 : UpperLetters[k] = c
        THEN LowerLetters[CHOOSE k \in 1..26 : UpperLetters[k] = c]
        ELSE c

toLowerCase(str) == [k \in 1..Len(str) |-> tolower(str[k])]

\* std::string::find_last_of(ch): 1-based position of the last ch, 0 for npos
find_last_of(s, ch) ==
    IF \E k \in 1..Len(s) : s[k] = ch
        THEN CHOOSE k \in 1..Len(s) : s[k] = ch /\ \A j \in (k + 1)..Len(s) : s[j] # ch
        ELSE 0

\* std::string::find_first_of(ch), which a variant of getFileExtension could call
find_first_of(s, ch) ==
    IF \E k \in 1..Len(s) : s[k] = ch
        THEN CHOOSE k \in 1..Len(s) : s[k] = ch /\ \A j \in 1..(k - 1) : s[j] # ch
        ELSE 0

\* a bug getFileExtension could have: the first '.' taken instead of the last
getFileExtensionFirstDot(filename) ==
    LET dot == find_first_of(filename, ".")
    IN  IF dot # 0
            THEN toLowerCase(SubSeq(filename, dot + 1, Len(filename)))
            ELSE <<>>

getFileExtension(filename) ==
    LET dot == find_last_of(filename, ".")
    IN  IF dot # 0
            THEN toLowerCase(SubSeq(filename, dot + 1, Len(filename)))
            ELSE <<>>

CannotOpenFile ==
    <<"C", "a", "n", "n", "o", "t", " ", "o", "p", "e", "n", " ",
      "f", "i", "l", "e", ":", " ">>

\* readFile on the disk `files`
readFile(files, filename) ==
    IF filename \notin DOMAIN files
        THEN [threw |-> TRUE, what |-> CannotOpenFile \o filename, value |-> <<>>]
        ELSE [threw |-> FALSE, what |-> <<>>, value |-> files[filename]]

---------------------------------------------------------------------------
(* Document *)

\* Document(text, fmt): metadata and pages start empty
Document(text, fmt) ==
    [content |-> text, metadata |-> EmptyMap, format |-> fmt, pages |-> <<>>]

\* a default-constructed Document, the value slot of a call that threw
NoDocument == Document(<<>>, <<>>)

Returned(doc) == [threw |-> FALSE, segv |-> FALSE, what |-> <<>>, value |-> doc]

Thrown(what) == [threw |-> TRUE, segv |-> FALSE, what |-> what, value |-> NoDocument]

\* the call neither returned nor threw: the process was ended by SIGSEGV
Killed == [threw |-> FALSE, segv |-> TRUE, what |-> <<>>, value |-> NoDocument]

---------------------------------------------------------------------------
(* TextParser *)

\* std::count(content.begin(), content.end(), ch)
count(content, ch) == Cardinality({k \in 1..Len(content) : content[k] = ch})

TextParser_parse(files, filename) ==
    LET rd == readFile(files, filename)
        content == rd.value
        doc0 == Document(content, <<"t", "e", "x", "t">>)
        doc1 == [doc0 EXCEPT !.metadata =
                    MapSet(@, "encoding", <<"u", "t", "f", "-", "8">>)]
        doc2 == [doc1 EXCEPT !.metadata =
                    MapSet(@, "lines", to_string(count(content, "\n") + 1))]
    IN  IF rd.threw THEN Thrown(rd.what) ELSE Returned(doc2)

---------------------------------------------------------------------------
(* CSVParser *)

\* the loop of parseCSVLine from 1-based position k on
RECURSIVE parseCSVLineFrom(_, _, _, _, _)
parseCSVLineFrom(line, k, fields, field, inQuotes) ==
    IF k > Len(line) THEN Append(fields, field)
    ELSE LET c == line[k]
         IN  IF c = "\"" THEN parseCSVLineFrom(line, k + 1, fields, field, ~inQuotes)
             ELSE IF c = "," /\ ~inQuotes
                 THEN parseCSVLineFrom(line, k + 1, Append(fields, field), <<>>, inQuotes)
             ELSE parseCSVLineFrom(line, k + 1, fields, Append(field, c), inQuotes)

\* a bug parseCSVLine could have: inQuotes initialised to true
parseCSVLineNoQuotes(line) == parseCSVLineFrom(line, 1, <<>>, <<>>, TRUE)

parseCSVLine(line) == parseCSVLineFrom(line, 1, <<>>, <<>>, FALSE)

\* std::getline(stream, line) with the stream at 1-based position pos of content:
\* fails when nothing is left; otherwise reads up to the next '\n', which it
\* consumes and drops, or up to the end
getline(content, pos) ==
    IF pos > Len(content) THEN [ok |-> FALSE, line |-> <<>>, next |-> pos]
    ELSE IF \E k \in pos..Len(content) : content[k] = "\n"
        THEN LET nl == CHOOSE k \in pos..Len(content) :
                          content[k] = "\n" /\ \A j \in pos..(k - 1) : content[j] # "\n"
             IN  [ok |-> TRUE, line |-> SubSeq(content, pos, nl - 1), next |-> nl + 1]
        ELSE [ok |-> TRUE, line |-> SubSeq(content, pos, Len(content)),
              next |-> Len(content) + 1]

\* the while loop of parseCSV
RECURSIVE parseCSVFrom(_, _, _)
parseCSVFrom(content, pos, rows) ==
    LET g == getline(content, pos)
    IN  IF g.ok THEN parseCSVFrom(content, g.next, Append(rows, parseCSVLine(g.line)))
        ELSE rows

parseCSV(content) == parseCSVFrom(content, 1, <<>>)

\* the inner for loop of CSVParser::parse: the fields of a row with " | " between
RECURSIVE formatRowFrom(_, _)
formatRowFrom(row, k) ==
    IF k > Len(row) THEN <<>>
    ELSE (IF k > 1 THEN <<" ", "|", " ">> ELSE <<>>) \o row[k] \o formatRowFrom(row, k + 1)

\* the outer for loop: every row followed by "\n"
RECURSIVE formatRowsFrom(_, _)
formatRowsFrom(rows, k) ==
    IF k > Len(rows) THEN <<>>
    ELSE formatRowFrom(rows[k], 1) \o <<"\n">> \o formatRowsFrom(rows, k + 1)

\* a bug CSVParser::parse could have: rows.back() instead of rows[0]
columnsOfLastRow(rows) == Len(rows[Len(rows)])

\* line 94: rows[0].size()
columnsOf(rows) == Len(rows[1])

\* the body of CSVParser::parse once the content is read
CSVParser_document(content) ==
    LET doc0 == Document(content, <<"c", "s", "v">>)
        rows == parseCSV(content)
        doc1 == [doc0 EXCEPT !.metadata = MapSet(@, "rows", to_string(Len(rows)))]
        doc2 == IF rows # <<>>
                    THEN [doc1 EXCEPT !.metadata =
                              MapSet(@, "columns", to_string(columnsOf(rows)))]
                    ELSE doc1
    IN  [doc2 EXCEPT !.content = formatRowsFrom(rows, 1)]

CSVParser_parse(files, filename) ==
    LET rd == readFile(files, filename)
    IN  IF rd.threw THEN Thrown(rd.what) ELSE Returned(CSVParser_document(rd.value))

---------------------------------------------------------------------------
(* JSONParser *)

\* a bug formatJSON could have: every '"' toggles, escaped or not
quoteTogglesIgnoringEscape(json, idx) == json[idx + 1] = "\""

\* line 182: c == '"' && (i == 0 || json[i-1] != '\\'), idx the 0-based i
quoteToggles(json, idx) ==
    json[idx + 1] = "\"" /\ (idx = 0 \/ json[idx] # "\\")

\* One iteration of the for loop of formatJSON at 0-based index idx, from the
\* locals st = [result, indent, inString].  `emitted` is what the iteration
\* appended to result; when std::string(indent * 2, ' ') throws, the iteration
\* ends there, with what had been appended before it.
formatJSONStep(json, idx, st) ==
    LET c == json[idx + 1]
        inStr == IF quoteToggles(json, idx) THEN ~st.inString ELSE st.inString
        open == c = "{" \/ c = "["
        close == c = "}" \/ c = "]"
        ind == IF inStr THEN st.indent
               ELSE IF open THEN st.indent + 1
               ELSE IF close THEN st.indent - 1
               ELSE st.indent
        fill == StringFill(ind * 2, " ")
        needsFill == ~inStr /\ (open \/ close \/ c = ",")
        threw == needsFill /\ fill.threw
        piece == IF inStr THEN <<c>>
                 ELSE IF open THEN <<c, "\n">> \o fill.value
                 ELSE IF close THEN <<"\n">> \o fill.value \o (IF threw THEN <<>> ELSE <<c>>)
                 ELSE IF c = "," THEN <<c, "\n">> \o fill.value
                 ELSE IF c # " " /\ c # "\t" /\ c # "\n" THEN <<c>>
                 ELSE <<>>
    IN  [threw |-> threw,
         what |-> IF threw THEN fill.what ELSE <<>>,
         result |-> st.result \o piece,
         indent |-> ind,
         inString |-> inStr,
         emitted |-> piece]

\* the whole loop, from 0-based index idx on
RECURSIVE formatJSONFrom(_, _, _)
formatJSONFrom(json, idx, st) ==
    IF idx >= Len(json) THEN [threw |-> FALSE, what |-> <<>>, value |-> st.result]
    ELSE LET n == formatJSONStep(json, idx, st)
         IN  IF n.threw THEN [threw |-> TRUE, what |-> n.what, value |-> <<>>]
             ELSE formatJSONFrom(json, idx + 1,
                      [result |-> n.result, indent |-> n.indent, inString |-> n.inString])

formatJSON(json) ==
    formatJSONFrom(json, 0, [result |-> <<>>, indent |-> 0, inString |-> FALSE])

JSONParser_parse(files, filename) ==
    LET rd == readFile(files, filename)
        content == rd.value
        doc0 == Document(content, <<"j", "s", "o", "n">>)
        formatted == formatJSON(content)
        doc1 == [doc0 EXCEPT !.content = formatted.value]
        doc2 == [doc1 EXCEPT !.metadata = MapSet(@, "type", <<"j", "s", "o", "n">>)]
        doc3 == [doc2 EXCEPT !.metadata = MapSet(@, "size", to_string(Len(content)))]
    IN  IF rd.threw THEN Thrown(rd.what)
        ELSE IF formatted.threw THEN Thrown(formatted.what)
        ELSE Returned(doc3)

---------------------------------------------------------------------------
(* XMLParser *)

\* what \s matches (std::regex, ECMAScript grammar, "C" locale)
IsSpace(c) == c \in {" ", "\t", "\n", "\r", "\f", VerticalTab}

\* the range-for loop of extractTextFromXML from 1-based position k on
RECURSIVE stripTagsFrom(_, _, _, _)
stripTagsFrom(xml, k, res, inTag) ==
    IF k > Len(xml) THEN res
    ELSE LET c == xml[k]
         IN  IF c = "<" THEN stripTagsFrom(xml, k + 1, res, TRUE)
             ELSE IF c = ">" THEN stripTagsFrom(xml, k + 1, Append(res, " "), FALSE)
             ELSE IF ~inTag THEN stripTagsFrom(xml, k + 1, Append(res, c), inTag)
             ELSE stripTagsFrom(xml, k + 1, res, inTag)

---------------------------------------------------------------------------
(* std::regex (ECMAScript grammar) as far as the patterns of the source go.  *)
(* A pattern is a sequence of elements:                                      *)
(*   Bol             ^            (no multiline flag: start of input only)   *)
(*   Lit(c)          the character c                                         *)
(*   Rep(cls, min, cap)  a greedy class repetition, + (min 1) or * (min 0),  *)
(*                   capturing group 1 when cap                              *)
(* A class is [neg, space, chars]: c is in it iff (c \in chars or, with      *)
(* space, c is whitespace) differs from neg.                                 *)
(* The matcher (libstdc++'s depth-first executor) calls itself for every     *)
(* character it consumes and returns only when the attempt is decided, so    *)
(* an attempt is as deep as the characters it has consumed; `room` is how    *)
(* many more it can consume before the stack is exhausted, or Unlimited.     *)
(* Building the std::regex of a statement needs stack too, whatever the     *)
(* input: a statement that finds NoRoom dies before it matches anything.     *)

Bol == [t |-> "bol", c |-> "", neg |-> FALSE, space |-> FALSE, chars |-> {},
        min |-> 0, cap |-> FALSE]

Lit(ch) == [t |-> "lit", c |-> ch, neg |-> FALSE, space |-> FALSE, chars |-> {},
            min |-> 0, cap |-> FALSE]

Rep(isNeg, isSpace, chs, atLeast, captures) ==
    [t |-> "rep", c |-> "", neg |-> isNeg, space |-> isSpace, chars |-> chs,
     min |-> atLeast, cap |-> captures]

InClass(e, ch) == ((ch \in e.chars) \/ (e.space /\ IsSpace(ch))) # e.neg

\* length of the longest run of class characters of e in s from position pos
RECURSIVE RunLength(_, _, _)
RunLength(s, pos, e) ==
    IF pos <= Len(s) /\ InClass(e, s[pos]) THEN 1 + RunLength(s, pos + 1, e) ELSE 0

\* the room of a caller whose stack outlasts every input (ulimit -s unlimited,
\* or any stack with more room than the input is long)
Unlimited == -1

\* the room of a caller whose stack is so nearly exhausted that building the
\* std::regex of a statement already overruns it, whatever the input
NoRoom == -2

\* n more characters can be consumed in the room
Fits(n, room) == room = Unlimited \/ (room # NoRoom /\ n <= room)

\* the room left once n more characters have been consumed
RoomAfter(n, room) == IF room = Unlimited THEN Unlimited ELSE room - n

NoMatch == [ok |-> FALSE, segv |-> FALSE, b |-> 0, e |-> 0, cap |-> <<>>]

\* the recursion ran out of stack: SIGSEGV
StackOverflow == [ok |-> FALSE, segv |-> TRUE, b |-> 0, e |-> 0, cap |-> <<>>]

\* The backtracking matcher: elements k.. of pat against s at position pos.
\* A repetition consumes its longest run first, one recursion per character,
\* and gives characters back one by one (TryRep); the first alternative that
\* lets the rest match is the match.
RECURSIVE MatchFrom(_, _, _, _, _)
RECURSIVE TryRep(_, _, _, _, _, _)
MatchFrom(s, pos, pat, k, room) ==
    IF k > Len(pat) THEN [ok |-> TRUE, segv |-> FALSE, b |-> 0, e |-> pos, cap |-> <<>>]
    ELSE LET el == pat[k]
         IN  IF el.t = "bol"
                 THEN IF pos = 1 THEN MatchFrom(s, pos, pat, k + 1, room) ELSE NoMatch
             ELSE IF el.t = "lit"
                 THEN IF pos <= Len(s) /\ s[pos] = el.c
                          THEN IF ~Fits(1, room) THEN StackOverflow
                               ELSE MatchFrom(s, pos + 1, pat, k + 1, RoomAfter(1, room))
                          ELSE NoMatch
             ELSE IF ~Fits(RunLength(s, pos, el), room) THEN StackOverflow
             ELSE TryRep(s, pos, pat, k, RunLength(s, pos, el), room)

TryRep(s, pos, pat, k, n, room) ==
    IF n < pat[k].min THEN NoMatch
    ELSE LET rest == MatchFrom(s, pos + n, pat, k + 1, RoomAfter(n, room))
         IN  IF rest.segv THEN rest
             ELSE IF rest.ok
                 THEN IF pat[k].cap
                          THEN [rest EXCEPT !.cap = SubSeq(s, pos, pos + n - 1)]
                          ELSE rest
                 ELSE TryRep(s, pos, pat, k, n - 1, room)

\* std::regex_search from position `from`: the leftmost start that matches;
\* the attempts are made in a loop, each on the whole room
RECURSIVE regex_search(_, _, _, _)
regex_search(s, from, pat, room) ==
    IF from > Len(s) + 1 THEN NoMatch
    ELSE LET m == MatchFrom(s, from, pat, 1, room)
         IN  IF m.segv THEN m
             ELSE IF m.ok THEN [m EXCEPT !.b = from]
             ELSE regex_search(s, from + 1, pat, room)

\* the replacement text of a format string: "$1" stands for group 1
RECURSIVE Expand(_, _)
Expand(fmt, cap) ==
    IF fmt = <<>> THEN <<>>
    ELSE (IF Head(fmt) = "$1" THEN cap ELSE <<Head(fmt)>>) \o Expand(Tail(fmt), cap)

\* a call of std::regex_replace that returned v / that was ended by SIGSEGV
Replaced(v) == [segv |-> FALSE, value |-> v]

Segfault == [segv |-> TRUE, value |-> <<>>]

\* std::regex_replace: every non-overlapping match, left to right, replaced;
\* the text between matches copied.  (No pattern of the source matches the
\* empty string, so each search resumes at the end of the previous match.)
RECURSIVE regex_replace_from(_, _, _, _, _)
regex_replace_from(s, from, pat, fmt, room) ==
    LET m == regex_search(s, from, pat, room)
        rest == regex_replace_from(s, m.e, pat, fmt, room)
    IN  IF m.segv THEN Segfault
        ELSE IF ~m.ok THEN Replaced(SubSeq(s, from, Len(s)))
        ELSE IF rest.segv THEN Segfault
        ELSE Replaced(SubSeq(s, from, m.b - 1) \o Expand(fmt, m.cap) \o rest.value)

regex_replace(s, pat, fmt, room) == regex_replace_from(s, 1, pat, fmt, room)

\* one statement of the parsers: std::regex r(pat); std::regex_replace(s, r, fmt).
\* Building the std::regex needs stack before any character is matched.
regex_statement(s, pat, fmt, room) ==
    IF room = NoRoom THEN Segfault ELSE regex_replace(s, pat, fmt, room)

\* line 257: std::regex multiSpace("\\s+")
multiSpace == <<Rep(FALSE, TRUE, {}, 1, FALSE)>>

extractTextFromXML(xml, room) ==
    regex_statement(stripTagsFrom(xml, 1, <<>>, FALSE), multiSpace, <<" ">>, room)

XMLParser_parse(files, filename, rooms) ==
    LET rd == readFile(files, filename)
        content == rd.value
        ext == getFileExtension(filename)
        doc0 == Document(content, ext)
        text == extractTextFromXML(content, rooms[1])
        doc1 == [doc0 EXCEPT !.content = text.value]
        doc2 == [doc1 EXCEPT !.metadata = MapSet(@, "format", ext)]
        doc3 == [doc2 EXCEPT !.metadata = MapSet(@, "has_tags", <<"t", "r", "u", "e">>)]
    IN  IF rd.threw THEN Thrown(rd.what)
        ELSE IF text.segv THEN Killed
        ELSE Returned(doc3)

---------------------------------------------------------------------------
(* MarkdownParser *)

\* the six std::regex of convertMarkdownToText, lines 292-303, in order
MdPatterns ==
    << \* ^#+\s*
       <<Bol, Rep(FALSE, FALSE, {"#"}, 1, FALSE), Rep(FALSE, TRUE, {}, 0, FALSE)>>,
       \* \*\*([^*]+)\*\*
       <<Lit("*"), Lit("*"), Rep(TRUE, FALSE, {"*"}, 1, TRUE), Lit("*"), Lit("*")>>,
       \* \*([^*]+)\*
       <<Lit("*"), Rep(TRUE, FALSE, {"*"}, 1, TRUE), Lit("*")>>,
       \* \[([^\]]+)\]\([^)]+\)
       <<Lit("["), Rep(TRUE, FALSE, {"]"}, 1, TRUE), Lit("]"),
         Lit("("), Rep(TRUE, FALSE, {")"}, 1, FALSE), Lit(")")>>,
       \* ```[^`]*```
       <<Lit(Backtick), Lit(Backtick), Lit(Backtick),
         Rep(TRUE, FALSE, {Backtick}, 0, FALSE),
         Lit(Backtick), Lit(Backtick), Lit(Backtick)>>,
       \* `([^`]+)`
       <<Lit(Backtick), Rep(TRUE, FALSE, {Backtick}, 1, TRUE), Lit(Backtick)>> >>

\* their format strings
MdFormats == << <<>>, <<"$1">>, <<"$1">>, <<"$1">>, <<>>, <<"$1">> >>

NumMdPasses == Len(MdPatterns)

\* the n-th statement result = std::regex_replace(result, ...)
MdPass(n, res, room) == regex_statement(res, MdPatterns[n], MdFormats[n], room)

\* statements n.. of convertMarkdownToText, the n-th in the room rooms[n];
\* none runs after the process died
RECURSIVE MdPassesFrom(_, _, _)
MdPassesFrom(n, res, rooms) ==
    IF n > NumMdPasses THEN Replaced(res)
    ELSE LET r == MdPass(n, res, rooms[n])
         IN  IF r.segv THEN Segfault ELSE MdPassesFrom(n + 1, r.value, rooms)

convertMarkdownToText(md, rooms) == MdPassesFrom(1, md, rooms)

MarkdownParser_parse(files, filename, rooms) ==
    LET rd == readFile(files, filename)
        content == rd.value
        doc0 == Document(content, <<"m", "a", "r", "k", "d", "o", "w", "n">>)
        text == convertMarkdownToText(content, rooms)
        doc1 == [doc0 EXCEPT !.content = text.value]
        doc2 == [doc1 EXCEPT !.metadata =
                    MapSet(@, "format", <<"m", "a", "r", "k", "d", "o", "w", "n">>)]
    IN  IF rd.threw THEN Thrown(rd.what)
        ELSE IF text.segv THEN Killed
        ELSE Returned(doc2)

---------------------------------------------------------------------------
(* UniversalDocumentParser *)

\* the constructor's push_back order, lines 316-320
InitialParsers ==
    <<"TextParser", "CSVParser", "JSONParser", "XMLParser", "MarkdownParser">>

\* the canParse override of each parser class
canParse(p, filename) ==
    LET ext == getFileExtension(filename)
    IN  CASE p = "TextParser" -> ext = <<"t", "x", "t">> \/ ext = <<"t", "e", "x", "t">>
          [] p = "CSVParser" -> ext = <<"c", "s", "v">>
          [] p = "JSONParser" -> ext = <<"j", "s", "o", "n">>
          [] p = "XMLParser" -> \/ ext = <<"x", "m", "l">>
                                \/ ext = <<"h", "t", "m", "l">>
                                \/ ext = <<"h", "t", "m">>
          [] p = "MarkdownParser" -> \/ ext = <<"m", "d">>
                                     \/ ext = <<"m", "a", "r", "k", "d", "o", "w", "n">>

\* the getFormatName override of each parser class
getFormatName(p) ==
    CASE p = "TextParser" -> <<"P", "l", "a", "i", "n", " ", "T", "e", "x", "t">>
      [] p = "CSVParser" -> <<"C", "S", "V">>
      [] p = "JSONParser" -> <<"J", "S", "O", "N">>
      [] p = "XMLParser" -> <<"X", "M", "L", "/", "H", "T", "M", "L">>
      [] p = "MarkdownParser" -> <<"M", "a", "r", "k", "d", "o", "w", "n">>

\* the parse override of each parser class (virtual dispatch)
parse(p, files, filename, rooms) ==
    CASE p = "TextParser" -> TextParser_parse(files, filename)
      [] p = "CSVParser" -> CSVParser_parse(files, filename)
      [] p = "JSONParser" -> JSONParser_parse(files, filename)
      [] p = "XMLParser" -> XMLParser_parse(files, filename, rooms)
      [] p = "MarkdownParser" -> MarkdownParser_parse(files, filename, rooms)

\* indices of the parsers whose canParse accepts the filename
Matching(ps, filename) == {k \in 1..Len(ps) : canParse(ps[k], filename)}

\* the for loop of parseDocument: the index of the first parser whose
\* canParse accepts the filename, 0 when the loop runs to its end
Detect(ps, filename) ==
    IF Matching(ps, filename) = {} THEN 0
    ELSE CHOOSE k \in Matching(ps, filename) : \A j \in Matching(ps, filename) : k <= j

NoSuitableParser ==
    <<"N", "o", " ", "s", "u", "i", "t", "a", "b", "l", "e", " ", "p", "a", "r", "s", "e", "r",
      " ", "f", "o", "u", "n", "d", " ", "f", "o", "r", ":", " ">>

FailedToParse ==
    <<"F", "a", "i", "l", "e", "d", " ", "t", "o", " ", "p", "a", "r", "s", "e", " ">>

\* a bug parseDocument could have: an unmatched filename yields an empty Document
parseDocumentResultSilent(ps, files, filename, rooms) ==
    LET k == Detect(ps, filename)
        r == parse(ps[k], files, filename, rooms)
    IN  IF k = 0 THEN Returned(NoDocument)
        ELSE IF r.segv THEN Killed
        ELSE IF r.threw
            THEN Thrown(FailedToParse \o filename \o <<":", " ">> \o r.what)
        ELSE Returned([r.value EXCEPT !.metadata =
                 MapSet(MapSet(@, "parser", getFormatName(ps[k])), "filename", filename)])

\* what parseDocument returns or throws with the parser list ps and the disk
\* files; a SIGSEGV inside parser->parse is not an exception, the catch of
\* lines 331-333 never sees it
parseDocumentResult(ps, files, filename, rooms) ==
    LET k == Detect(ps, filename)
        r == parse(ps[k], files, filename, rooms)
    IN  IF k = 0 THEN Thrown(NoSuitableParser \o filename)
        ELSE IF r.segv THEN Killed
        ELSE IF r.threw
            THEN Thrown(FailedToParse \o filename \o <<":", " ">> \o r.what)
        ELSE Returned([r.value EXCEPT !.metadata =
                 MapSet(MapSet(@, "parser", getFormatName(ps[k])), "filename", filename)])

getSupportedFormatsResult(ps) == [k \in 1..Len(ps) |-> getFormatName(ps[k])]

canParseFileResult(ps, filename) == \E k \in 1..Len(ps) : canParse(ps[k], filename)

---------------------------------------------------------------------------
(* The registry specification: public calls on one UniversalDocumentParser. *)
(* The disk is the environment's: each parseDocument call finds the file     *)
(* absent or holding some content, whatever earlier calls found.             *)

RegistryFilenames ==
    { <<"a", ".", "t", "x", "t">>,
      <<"a", ".", "c", "s", "v">>,
      <<"a", ".", "j", "s", "o", "n">>,
      <<"b", ".", "h", "t", "m", "l">>,
      <<"c", ".", "m", "d">>,
      <<"f", "i", "l", "e", ".", "u", "n", "k", "n", "o", "w", "n", "e", "x", "t">> }

RegistryContents ==
    { <<"}">>,
      <<"#", " ", "<", "b", ">", "*", "a", ",", "b", "*", "<", "/", "b", ">", "\n">> }

NoFiles == [f \in {} |-> <<>>]

\* the disks a call on filename can find: the file absent, or holding a content
Disks(filename) ==
    {NoFiles} \cup {[f \in {filename} |-> c] : c \in RegistryContents}

NoCall ==
    [op |-> "none", filename |-> <<>>, src |-> readFile(NoFiles, <<>>), rooms |-> <<>>,
     outcome |-> Thrown(<<>>), rerun |-> FALSE, ret |-> FALSE, formats |-> <<>>]

NoEarlier == [set |-> FALSE, filename |-> <<>>, src |-> readFile(NoFiles, <<>>),
              rooms |-> <<>>, outcome |-> Thrown(<<>>)]

\* the rooms a statement can find: none even to build its std::regex, every
\* finite room up to MaxStackRoom, or more room than any input needs
StackRooms == {NoRoom} \cup (0..MaxStackRoom) \cup {Unlimited}

\* the rooms the statements of a call on the registry find.  A call returns
\* when every statement has room and is killed when one has not, so the
\* calls whose statements all find the same room show both.
RegistryRooms ==
    {[n \in 1..NumMdPasses |-> r] :
        r \in {NoRoom} \cup (0..MaxRegistryRoom) \cup {Unlimited}}

\* the call finds what the remembered call found
SameInput(e, filename, src, rooms) ==
    e.set /\ e.filename = filename /\ e.src = src /\ e.rooms = rooms

AlgorithmIdle ==
    /\ pc = "idle"
    /\ stack = Unlimited
    /\ arg = <<>>
    /\ i = 0
    /\ result = <<>>
    /\ indent = 0
    /\ inString = FALSE
    /\ emitted = <<>>
    /\ out = <<>>

RegistryFresh ==
    /\ parsers = InitialParsers
    /\ last = NoCall
    /\ earlier = NoEarlier

algoVars == <<pc, stack, arg, i, result, indent, inString, emitted, out>>

registryVars == <<parsers, last, earlier>>

\* the process is running: no call has ended it
ProcessAlive == ~last.outcome.segv

Init == RegistryFresh /\ AlgorithmIdle

\* a bug parseDocument could have: the matched parser is moved out of the list
parseDocumentConsuming(filename, files, rooms) ==
    /\ ProcessAlive
    /\ \E src \in {readFile(files, filename)} :
       \E outcome \in {parseDocumentResult(parsers, files, filename, rooms)} :
           /\ last' = [NoCall EXCEPT !.op = "parseDocument", !.filename = filename,
                                     !.src = src, !.rooms = rooms, !.outcome = outcome,
                                     !.rerun = SameInput(earlier, filename, src, rooms)]
           /\ \/ earlier' = earlier
              \/ /\ ~earlier.set
                 /\ earlier' = [set |-> TRUE, filename |-> filename, src |-> src,
                                rooms |-> rooms, outcome |-> outcome]
    /\ parsers' = IF Detect(parsers, filename) = 0 THEN parsers
                  ELSE SubSeq(parsers, 1, Detect(parsers, filename) - 1)
                           \o SubSeq(parsers, Detect(parsers, filename) + 1, Len(parsers))
    /\ UNCHANGED algoVars

\* parseDocument(filename) with the disk and the stack rooms as the call finds
\* them; the call may be the one `earlier` remembers, and it is a re-run when
\* it finds what the remembered call found.  A call that ends in SIGSEGV is
\* the last one.
parseDocument(filename, files, rooms) ==
    /\ ProcessAlive
    /\ \E src \in {readFile(files, filename)} :
       \E outcome \in {parseDocumentResult(parsers, files, filename, rooms)} :
           /\ last' = [NoCall EXCEPT !.op = "parseDocument", !.filename = filename,
                                     !.src = src, !.rooms = rooms, !.outcome = outcome,
                                     !.rerun = SameInput(earlier, filename, src, rooms)]
           /\ \/ earlier' = earlier
              \/ /\ ~earlier.set
                 /\ earlier' = [set |-> TRUE, filename |-> filename, src |-> src,
                                rooms |-> rooms, outcome |-> outcome]
    /\ parsers' = parsers
    /\ UNCHANGED algoVars

\* canParseFile(filename)
canParseFile(filename) ==
    /\ ProcessAlive
    /\ last' = [NoCall EXCEPT !.op = "canParseFile", !.filename = filename,
                              !.ret = canParseFileResult(parsers, filename)]
    /\ UNCHANGED <<parsers, earlier, algoVars>>

\* getSupportedFormats()
getSupportedFormats ==
    /\ ProcessAlive
    /\ last' = [NoCall EXCEPT !.op = "getSupportedFormats",
                              !.formats = getSupportedFormatsResult(parsers)]
    /\ UNCHANGED <<parsers, earlier, algoVars>>

Next ==
    \/ \E f \in RegistryFilenames : \E d \in Disks(f) : \E r \in RegistryRooms :
           parseDocument(f, d, r)
    \/ \E f \in RegistryFilenames : canParseFile(f)
    \/ getSupportedFormats

Spec == Init /\ [][Next]_vars

---------------------------------------------------------------------------
(* Format detection on its own: canParseFile and the detection loop on one *)
(* filename.  Filenames are built from tokens so that every recognised     *)
(* extension, in several spellings, occurs before and after dots.          *)

FilenameTokens ==
    { <<".">>, <<"a">>, <<"A">>, <<"/">>,
      <<"t", "x", "t">>, <<"T", "e", "x", "t">>,
      <<"c", "s", "v">>, <<"C", "S", "V">>,
      <<"j", "s", "o", "n">>,
      <<"x", "m", "l">>, <<"h", "t", "m", "l">>, <<"H", "T", "M">>,
      <<"m", "d">>, <<"M", "a", "r", "k", "d", "o", "w", "n">>,
      <<"u", "n", "k", "n", "o", "w", "n", "e", "x", "t">> }

Filenames == {Concat(ts) : ts \in SeqsUpTo(FilenameTokens, MaxNameTokens)}

InitDetect ==
    /\ RegistryFresh
    /\ stack = Unlimited
    /\ pc = "detect"
    /\ arg \in Filenames
    /\ i = 0
    /\ result = <<>>
    /\ indent = 0
    /\ inString = FALSE
    /\ emitted = <<>>
    /\ out = <<>>

\* canParseFile(arg), with what the detection loop of parseDocument selects
DetectFile ==
    /\ pc = "detect"
    /\ pc' = "detected"
    /\ out' = [ext |-> getFileExtension(arg),
               matching |-> {parsers[k] : k \in Matching(parsers, arg)},
               selected |-> IF Detect(parsers, arg) = 0 THEN "none"
                            ELSE parsers[Detect(parsers, arg)],
               canParseFile |-> canParseFileResult(parsers, arg)]
    /\ UNCHANGED <<registryVars, stack, arg, i, result, indent, inString, emitted>>

NextDetect == DetectFile

SpecDetect == InitDetect /\ [][NextDetect]_vars

---------------------------------------------------------------------------
(* The CSV parser on its own *)

CsvAlphabet == {"a", "b", ",", "\"", "\n"}

CsvExamples ==
    { <<"a", ",", "b", ",", "\"", "c", ",", "d", "\"">>,
      <<"a", ",", "b", ",", "\"", "c", ",", "d", "\"", "\n", "1", ",", "2", ",", "3">> }

CsvInputs == SeqsUpTo(CsvAlphabet, MaxCsvLen) \cup CsvExamples

InitTabular ==
    /\ RegistryFresh
    /\ stack = Unlimited
    /\ pc = "csv"
    /\ arg \in CsvInputs
    /\ i = 0
    /\ result = <<>>
    /\ indent = 0
    /\ inString = FALSE
    /\ emitted = <<>>
    /\ out = <<>>

\* parseCSVLine(arg)
SplitLine ==
    /\ pc = "csv"
    /\ pc' = "line_done"
    /\ out' = parseCSVLine(arg)
    /\ UNCHANGED <<registryVars, stack, arg, i, result, indent, inString, emitted>>

\* CSVParser::parse on a file holding arg
ParseCSV ==
    /\ pc = "csv"
    /\ pc' = "csv_done"
    /\ out' = CSVParser_document(arg)
    /\ UNCHANGED <<registryVars, stack, arg, i, result, indent, inString, emitted>>

NextTabular == SplitLine \/ ParseCSV

SpecTabular == InitTabular /\ [][NextTabular]_vars

---------------------------------------------------------------------------
(* formatJSON on its own, one loop iteration per step *)

JsonAlphabet == {"{", "}", "[", "]", ",", "\"", "\\", " ", "\t", "\n", "a"}

JsonExamples ==
    { <<"{", "\"", "a", "\"", ":", "1", ",", "\"", "b", "\"", ":", "[", "1", ",", "2", "]", "}">>,
      <<"{", "\"", "a", " ", "\\", "\"", "}", "\"", ":", " ", "[", "1", ",", "\n", "2", "]", "}">> }

JsonInputs == SeqsUpTo(JsonAlphabet, MaxJsonLen) \cup JsonExamples

InitStructured ==
    /\ RegistryFresh
    /\ stack = Unlimited
    /\ pc = "json_loop"
    /\ arg \in JsonInputs
    /\ i = 0
    /\ result = <<>>
    /\ indent = 0
    /\ inString = FALSE
    /\ emitted = <<>>
    /\ out = <<>>

\* one iteration of the for loop; an exception leaves the function
FormatJSONIterate ==
    /\ pc = "json_loop"
    /\ i < Len(arg)
    /\ LET n == formatJSONStep(arg, i,
                    [result |-> result, indent |-> indent, inString |-> inString])
       IN  /\ result' = n.result
           /\ indent' = n.indent
           /\ inString' = n.inString
           /\ emitted' = n.emitted
           /\ IF n.threw
                  THEN pc' = "json_threw" /\ out' = n.what /\ i' = i
                  ELSE pc' = "json_loop" /\ out' = out /\ i' = i + 1
    /\ UNCHANGED <<registryVars, stack, arg>>

\* return result
FormatJSONReturn ==
    /\ pc = "json_loop"
    /\ i >= Len(arg)
    /\ pc' = "json_returned"
    /\ out' = result
    /\ UNCHANGED <<registryVars, stack, arg, i, result, indent, inString, emitted>>

NextStructured == FormatJSONIterate \/ FormatJSONReturn

SpecStructured == InitStructured /\ [][NextStructured]_vars

---------------------------------------------------------------------------
(* extractTextFromXML on its own: the scan, then the whitespace clean-up *)

XmlAlphabet == {"<", ">", "a", " ", "\n", "\t"}

XmlExamples ==
    { <<"<", "p", ">", "H", "e", "l", "l", "o", " ", "<", "b", ">", "W", "o", "r", "l", "d",
        "<", "/", "b", ">", "<", "/", "p", ">">>,
      <<"a", "\r", "\f", VerticalTab, "b">> }

XmlInputs == SeqsUpTo(XmlAlphabet, MaxXmlLen) \cup XmlExamples

InitMarkup ==
    /\ RegistryFresh
    /\ stack \in StackRooms
    /\ pc = "xml_scan"
    /\ arg \in XmlInputs
    /\ i = 0
    /\ result = <<>>
    /\ indent = 0
    /\ inString = FALSE
    /\ emitted = <<>>
    /\ out = <<>>

\* the range-for loop, lines 245-254
ScanXML ==
    /\ pc = "xml_scan"
    /\ pc' = "xml_cleanup"
    /\ result' = stripTagsFrom(arg, 1, <<>>, FALSE)
    /\ UNCHANGED <<registryVars, stack, arg, i, indent, inString, emitted, out>>

\* result = std::regex_replace(result, multiSpace, " "); return result
CleanUpXML ==
    /\ pc = "xml_cleanup"
    /\ LET r == regex_statement(result, multiSpace, <<" ">>, stack)
       IN  IF r.segv
               THEN pc' = "xml_segv" /\ UNCHANGED <<result, out>>
               ELSE pc' = "xml_done" /\ result' = r.value /\ out' = r.value
    /\ UNCHANGED <<registryVars, stack, arg, i, indent, inString, emitted>>

NextMarkup == ScanXML \/ CleanUpXML

SpecMarkup == InitMarkup /\ [][NextMarkup]_vars

---------------------------------------------------------------------------
(* convertMarkdownToText on its own, one regex_replace statement per step *)

MdTokens ==
    { <<"#">>, <<"*">>, <<"*", "*">>, <<"a">>, <<"\n">>, <<Backtick>>,
      <<Backtick, Backtick, Backtick>>, <<"[", "a", "]">>, <<"(", "a", ")">> }

MdExamples ==
    { <<"#", " ", "T", "i", "t", "l", "e", "\n", "*", "*", "b", "o", "l", "d", "*", "*", " ",
        "a", "n", "d", " ", "*", "e", "m", "*", " ", "a", "n", "d", " ",
        "[", "l", "i", "n", "k", "]", "(", "u", "r", "l", ")", " ", "a", "n", "d", " ",
        Backtick, "c", "o", "d", "e", Backtick>>,
      <<"#", "#", " ", "\t", "a", "\n", "#", " ", "b">>,
      <<"[", "[", "a", "]", "(", "(", "b", ")", ")">>,
      <<"#", " ", "T", "\n", "#", " ", "U", "\n", "*", "*", "b", "*", "*", " ",
        "*", "e", "*", " ", "[", "l", "]", "(", "u", ")", " ",
        Backtick, Backtick, Backtick, "x", Backtick, Backtick, Backtick, " ",
        Backtick, "c", Backtick>> }

MdInputs == {Concat(ts) : ts \in SeqsUpTo(MdTokens, MaxMdTokens)} \cup MdExamples

InitLightMarkup ==
    /\ RegistryFresh
    /\ stack = Unlimited
    /\ pc = "md_pass"
    /\ arg \in MdInputs
    /\ i = 1
    /\ result = arg
    /\ indent = 0
    /\ inString = FALSE
    /\ emitted = <<>>
    /\ out = <<>>

\* the i-th statement result = std::regex_replace(result, ...) in the room it
\* finds; a SIGSEGV inside it ends the run
MarkdownPass ==
    /\ pc = "md_pass"
    /\ i <= NumMdPasses
    /\ \E room \in StackRooms : \E r \in {MdPass(i, result, room)} :
           /\ stack' = room
           /\ IF r.segv
                  THEN pc' = "md_segv" /\ UNCHANGED <<result, i>>
                  ELSE pc' = pc /\ result' = r.value /\ i' = i + 1
    /\ UNCHANGED <<registryVars, arg, indent, inString, emitted, out>>

\* return result
MarkdownReturn ==
    /\ pc = "md_pass"
    /\ i > NumMdPasses
    /\ pc' = "md_done"
    /\ out' = result
    /\ UNCHANGED <<registryVars, stack, arg, i, result, indent, inString, emitted>>

NextLightMarkup == MarkdownPass \/ MarkdownReturn

SpecLightMarkup == InitLightMarkup /\ [][NextLightMarkup]_vars

---------------------------------------------------------------------------
(* Vocabulary of the properties.  These definitions state what a result    *)
(* must be, position by position, without running the algorithms above.    *)

\* the positions of s holding ch
Positions(s, ch) == {k \in 1..Len(s) : s[k] = ch}

\* the k-th smallest element of a finite set of numbers
Nth(S, k) == CHOOSE p \in S : Cardinality({q \in S : q <= p}) = k

\* s without the characters at the positions in drop
RECURSIVE Without(_, _, _)
Without(s, drop, k) ==
    IF k > Len(s) THEN <<>>
    ELSE (IF k \in drop THEN <<>> ELSE <<s[k]>>) \o Without(s, drop, k + 1)

\* the strings of ss with sep between them
RECURSIVE JoinWith(_, _)
JoinWith(ss, sep) ==
    IF Len(ss) = 0 THEN <<>>
    ELSE IF Len(ss) = 1 THEN ss[1]
    ELSE JoinWith(SubSeq(ss, 1, Len(ss) - 1), sep) \o sep \o ss[Len(ss)]

\* the number a decimal numeral denotes
RECURSIVE DecimalValue(_)
DecimalValue(ds) ==
    IF ds = <<>> THEN 0
    ELSE 10 * DecimalValue(SubSeq(ds, 1, Len(ds) - 1))
             + ((CHOOSE d \in 1..10 : Digits[d] = ds[Len(ds)]) - 1)

IsNumeral(ds) ==
    /\ ds # <<>>
    /\ \A k \in 1..Len(ds) : \E d \in 1..10 : Digits[d] = ds[k]
    /\ Len(ds) > 1 => ds[1] # "0"

\* upper-case / lower-case letter pairs
CasePairs == {<<UpperLetters[k], LowerLetters[k]>> : k \in 1..26}

LowerOf(c) == IF \E pr \in CasePairs : pr[1] = c
                  THEN (CHOOSE pr \in CasePairs : pr[1] = c)[2] ELSE c

UpperOf(c) == IF \E pr \in CasePairs : pr[2] = c
                  THEN (CHOOSE pr \in CasePairs : pr[2] = c)[1] ELSE c

---------------------------------------------------------------------------
(* C1: format detection *)

\* the recognised extension sets of section 4.1
ExtensionTable ==
    [TextParser |-> {<<"t", "x", "t">>, <<"t", "e", "x", "t">>},
     CSVParser |-> {<<"c", "s", "v">>},
     JSONParser |-> {<<"j", "s", "o", "n">>},
     XMLParser |-> {<<"x", "m", "l">>, <<"h", "t", "m", "l">>, <<"h", "t", "m">>},
     MarkdownParser |-> {<<"m", "d">>, <<"m", "a", "r", "k", "d", "o", "w", "n">>}]

\* ext is the part of filename after its last '.', lower-cased; empty without a '.'
IsExtensionOf(ext, filename) ==
    IF Positions(filename, ".") = {} THEN ext = <<>>
    ELSE LET dot == Nth(Positions(filename, "."), Cardinality(Positions(filename, ".")))
         IN  /\ Len(ext) = Len(filename) - dot
             /\ \A k \in 1..Len(ext) : ext[k] = LowerOf(filename[dot + k])

SelectedFor(filename) ==
    IF Detect(parsers, filename) = 0 THEN "none" ELSE parsers[Detect(parsers, filename)]

\* C1: the extension is the lower-cased text after the last '.', a parser is
\* selected exactly when the extension is in its set, at most one parser
\* matches, canParseFile is true exactly when one is selected, and the
\* filename in lower case and in upper case selects the same parser.
C1_Detection ==
    pc = "detected" =>
        /\ IsExtensionOf(out.ext, arg)
        /\ \A p \in DOMAIN ExtensionTable :
               (out.selected = p) <=> (out.ext \in ExtensionTable[p])
        /\ out.selected \in (DOMAIN ExtensionTable) \cup {"none"}
        /\ Cardinality(out.matching) <= 1
        /\ out.canParseFile <=> (out.selected # "none")
        /\ SelectedFor([k \in 1..Len(arg) |-> LowerOf(arg[k])]) = out.selected
        /\ SelectedFor([k \in 1..Len(arg) |-> UpperOf(arg[k])]) = out.selected

\* "A.CSV" has been detected as CSV
C1_Witness ==
    /\ pc = "detected"
    /\ arg = <<"A", ".", "C", "S", "V">>
    /\ out.selected = "CSVParser"
    /\ out.canParseFile

---------------------------------------------------------------------------
(* C2, C3, C8: the registry *)

\* the disk a remembered call found, rebuilt from what readFile gave it
DiskOf(call) ==
    IF call.src.threw THEN NoFiles ELSE [f \in {call.filename} |-> call.src.value]

IsUnsupportedFormat(outcome, filename) ==
    outcome.threw /\ outcome.what = NoSuitableParser \o filename

IsExtractionFailed(outcome, filename, cause) ==
    outcome.threw /\ outcome.what = FailedToParse \o filename \o <<":", " ">> \o cause

IsUnreadableSource(outcome, filename) ==
    outcome.threw /\ outcome.what = CannotOpenFile \o filename

\* C2: parseDocument fails with "No suitable parser found for: <filename>"
\* exactly when canParseFile(filename) is false, and then, whatever the disk
\* holds, nothing else happens: no Document comes back.
C2_UnsupportedFormat ==
    last.op = "parseDocument" =>
        /\ IsUnsupportedFormat(last.outcome, last.filename)
               <=> ~canParseFileResult(parsers, last.filename)
        /\ ~canParseFileResult(parsers, last.filename) =>
               last.outcome = Thrown(NoSuitableParser \o last.filename)

\* a readable file with an unrecognised extension has been refused
C2_Witness ==
    /\ last.op = "parseDocument"
    /\ last.filename = <<"f", "i", "l", "e", ".", "u", "n", "k", "n", "o", "w", "n", "e", "x", "t">>
    /\ ~last.src.threw
    /\ last.src.value # <<>>
    /\ IsUnsupportedFormat(last.outcome, last.filename)

\* C3: a parseDocument call that finds the same filename, the same content
\* and the same stack as a remembered earlier call has the same outcome,
\* whatever calls were made before or in between; the parser list is the
\* constructor's, and getSupportedFormats and canParseFile answer as on a
\* fresh registry.
C3_Idempotent ==
    /\ parsers = InitialParsers
    /\ (last.op = "parseDocument" /\ SameInput(earlier, last.filename, last.src, last.rooms))
           => last.outcome = earlier.outcome
    /\ last.op = "getSupportedFormats" =>
           last.formats = getSupportedFormatsResult(InitialParsers)
    /\ last.op = "canParseFile" =>
           last.ret = canParseFileResult(InitialParsers, last.filename)

\* c.md has been parsed again, finding what the remembered call found, and
\* the same Document has come back
C3_Witness ==
    /\ last.op = "parseDocument"
    /\ last.rerun
    /\ last.filename = <<"c", ".", "m", "d">>
    /\ ~last.src.threw
    /\ ~last.outcome.threw /\ ~last.outcome.segv
    /\ last.outcome.value.content = <<"<", "b", ">", "a", ",", "b", "<", "/", "b", ">", "\n">>
    /\ last.outcome = earlier.outcome

\* what the selected parser does on the disk and in the rooms the call found
ParserFailure(call) ==
    parse(SelectedFor(call.filename), DiskOf(call), call.filename, call.rooms)

\* C8: whenever the selected parser fails while parseDocument runs, by an
\* exception or by ending the process, parseDocument fails with "Failed to
\* parse <filename>: <cause>" and with nothing else; but a file that cannot
\* be read is reported as the unreadable-source failure itself, not wrapped.
C8_ExtractionFailed ==
    (last.op = "parseDocument" /\ SelectedFor(last.filename) # "none") =>
        /\ (~last.src.threw /\ (ParserFailure(last).threw \/ ParserFailure(last).segv)) =>
               /\ last.outcome.threw
               /\ \E n \in 0..Len(last.outcome.what) :
                      /\ SubSeq(last.outcome.what, 1, n)
                             = FailedToParse \o last.filename \o <<":", " ">>
                      /\ ParserFailure(last).threw =>
                             SubSeq(last.outcome.what, n + 1, Len(last.outcome.what))
                                 = ParserFailure(last).what
        /\ last.src.threw =>
               /\ IsUnreadableSource(last.outcome, last.filename)
               /\ ~IsExtractionFailed(last.outcome, last.filename,
                                      CannotOpenFile \o last.filename)

---------------------------------------------------------------------------
(* C5, C9: the CSV parser *)

\* position k of line is inside quotes: an odd number of '"' before it
QuotedAt(line, k) == Cardinality({q \in Positions(line, "\"") : q < k}) % 2 = 1

\* the commas that separate fields: those not inside quotes
OutsideCommas(line) == {k \in Positions(line, ",") : ~QuotedAt(line, k)}

\* the k-th field: the text between the (k-1)-th and the k-th separating
\* comma (or the ends of the line), its '"' removed
FieldOf(line, k) ==
    LET seps == OutsideCommas(line)
        from == IF k = 1 THEN 1 ELSE Nth(seps, k - 1) + 1
        to == IF k = Cardinality(seps) + 1 THEN Len(line) ELSE Nth(seps, k) - 1
        seg == SubSeq(line, from, to)
    IN  Without(seg, Positions(seg, "\""), 1)

\* C5: parseCSVLine yields (separating commas + 1) fields; the k-th is the
\* text between the separating commas around it with its quote characters
\* dropped (commas inside quotes stay in the field); a,b,"c,d" yields
\* a / b / c,d.
C5_FieldSplitter ==
    pc = "line_done" =>
        /\ Len(out) = Cardinality(OutsideCommas(arg)) + 1
        /\ \A k \in 1..Len(out) : out[k] = FieldOf(arg, k)
        /\ JoinWith(out, <<",">>) = Without(arg, Positions(arg, "\""), 1)
        /\ arg = <<"a", ",", "b", ",", "\"", "c", ",", "d", "\"">> =>
               out = << <<"a">>, <<"b">>, <<"c", ",", "d">> >>

\* a,b,"c,d" has been split into its three fields
C5_Witness ==
    /\ pc = "line_done"
    /\ arg = <<"a", ",", "b", ",", "\"", "c", ",", "d", "\"">>
    /\ out = << <<"a">>, <<"b">>, <<"c", ",", "d">> >>

\* content with a line terminator added when it is not empty and lacks one
Terminated(content) ==
    IF content = <<>> \/ content[Len(content)] = "\n" THEN content
    ELSE content \o <<"\n">>

\* the physical lines: the text before each '\n' of the terminated content
LinesOf(content) ==
    LET t == Terminated(content)
        nls == Positions(t, "\n")
    IN  [k \in 1..Cardinality(nls) |->
            SubSeq(t, IF k = 1 THEN 1 ELSE Nth(nls, k - 1) + 1, Nth(nls, k) - 1)]

\* C9: the rows are the physical lines, each split by parseCSVLine; "rows" is
\* their number; "columns" is the field count of the first row and is absent
\* exactly when there is no row; the content is every row's fields joined by
\* " | " and followed by one '\n'.
C9_Tabular ==
    pc = "csv_done" =>
        LET lines == LinesOf(arg)
            rows == [k \in 1..Len(lines) |-> parseCSVLine(lines[k])]
        IN  /\ arg = <<>> => Len(lines) = 0
            /\ (arg # <<>> /\ arg[Len(arg)] = "\n") =>
                   Len(lines) = Cardinality(Positions(arg, "\n"))
            /\ IsNumeral(out.metadata["rows"])
            /\ DecimalValue(out.metadata["rows"]) = Len(lines)
            /\ ("columns" \in DOMAIN out.metadata) <=> (Len(lines) > 0)
            /\ Len(lines) > 0 =>
                   /\ IsNumeral(out.metadata["columns"])
                   /\ DecimalValue(out.metadata["columns"]) = Len(rows[1])
            /\ out.content =
                   Concat([k \in 1..Len(rows) |-> JoinWith(rows[k], <<" ", "|", " ">>) \o <<"\n">>])
            /\ out.format = <<"c", "s", "v">>

\* the two-row example has been parsed: 2 rows, 3 columns, reformatted content
C9_Witness ==
    /\ pc = "csv_done"
    /\ arg = <<"a", ",", "b", ",", "\"", "c", ",", "d", "\"", "\n", "1", ",", "2", ",", "3">>
    /\ out.metadata["rows"] = <<"2">>
    /\ out.metadata["columns"] = <<"3">>
    /\ out.content = <<"a", " ", "|", " ", "b", " ", "|", " ", "c", ",", "d", "\n",
                       "1", " ", "|", " ", "2", " ", "|", " ", "3", "\n">>

---------------------------------------------------------------------------
(* C4, C10: formatJSON *)

\* the '"' that toggle string-state: those not right after a backslash
TogglingQuotes(json) ==
    {k \in Positions(json, "\"") : k = 1 \/ json[k - 1] # "\\"}

\* string-state once character k has been looked at
InStringAt(json, k) == Cardinality({q \in TogglingQuotes(json) : q <= k}) % 2 = 1

Openers(json) == {k \in 1..Len(json) : json[k] \in {"{", "["} /\ ~InStringAt(json, k)}

Closers(json) == {k \in 1..Len(json) : json[k] \in {"}", "]"} /\ ~InStringAt(json, k)}

\* the indent level once character k has been handled
IndentAt(json, k) ==
    Cardinality({q \in Openers(json) : q <= k}) - Cardinality({q \in Closers(json) : q <= k})

\* the indent level never goes negative within the first n characters
NeverNegative(json, n) == \A k \in 1..n : IndentAt(json, k) >= 0

Spaces(n) == [k \in 1..n |-> " "]

\* what character k contributes to the output
PieceAt(json, k) ==
    LET c == json[k]
        pad == Spaces(2 * IndentAt(json, k))
    IN  IF InStringAt(json, k) THEN <<c>>
        ELSE IF c \in {"{", "["} THEN <<c, "\n">> \o pad
        ELSE IF c \in {"}", "]"} THEN <<"\n">> \o pad \o <<c>>
        ELSE IF c = "," THEN <<c, "\n">> \o pad
        ELSE IF c \in {" ", "\t", "\n"} THEN <<>>
        ELSE <<c>>

\* the input without its space, tab and newline characters outside strings
Compact(json) ==
    Without(json, {k \in 1..Len(json) :
                      json[k] \in {" ", "\t", "\n"} /\ ~InStringAt(json, k)}, 1)

\* t is s with some newline and space characters deleted (t read from position
\* k, s from position j)
RECURSIVE DeindentsTo(_, _, _, _)
DeindentsTo(s, j, t, k) ==
    IF j > Len(s) THEN k > Len(t)
    ELSE IF k <= Len(t) /\ s[j] = t[k] THEN DeindentsTo(s, j + 1, t, k + 1)
    ELSE s[j] \in {"\n", " "} /\ DeindentsTo(s, j + 1, t, k)

\* C4 as claimed: formatJSON returns for every input, unbalanced closing
\* brackets included, and emits no indentation spaces while the indent level
\* is negative.
C4_NeverFails ==
    /\ pc # "json_threw"
    /\ indent < 0 => Positions(emitted, " ") = {}

\* C10: while the indent level has not gone negative, the n characters handled
\* so far have each contributed their piece, in order: a quote toggles
\* string-state unless a backslash precedes it, brackets and commas outside
\* strings get their newline and 2*indent spaces, blanks outside strings are
\* dropped, everything else is copied; and the returned text, its newlines
\* and spaces of indentation deleted, is the input without its blanks outside
\* strings.
C10_Reformat ==
    (pc \in {"json_loop", "json_returned"} /\ NeverNegative(arg, i)) =>
        /\ result = Concat([k \in 1..i |-> PieceAt(arg, k)])
        /\ indent = (IF i = 0 THEN 0 ELSE IndentAt(arg, i))
        /\ inString = (IF i = 0 THEN FALSE ELSE InStringAt(arg, i))
        /\ i > 0 => emitted = PieceAt(arg, i)
        /\ pc = "json_returned" =>
               /\ i = Len(arg)
               /\ out = result
               /\ DeindentsTo(out, 1, Compact(arg), 1)

\* {"a":1,"b":[1,2]} has been reformatted
C10_Witness ==
    /\ pc = "json_returned"
    /\ arg = <<"{", "\"", "a", "\"", ":", "1", ",", "\"", "b", "\"", ":",
               "[", "1", ",", "2", "]", "}">>
    /\ out = <<"{", "\n", " ", " ", "\"", "a", "\"", ":", "1", ",", "\n", " ", " ",
               "\"", "b", "\"", ":", "[", "\n", " ", " ", " ", " ", "1", ",", "\n",
               " ", " ", " ", " ", "2", "\n", " ", " ", "]", "\n", "}">>

---------------------------------------------------------------------------
(* C6: extractTextFromXML *)

\* character k is in tag-state: the nearest '<' or '>' before it is a '<'
InTagAt(xml, k) ==
    \E j \in 1..(k - 1) : xml[j] = "<" /\ \A m \in (j + 1)..(k - 1) : xml[m] # ">"

\* what the scan keeps of character k
ScanPieceAt(xml, k) ==
    IF xml[k] = ">" THEN <<" ">>
    ELSE IF xml[k] = "<" \/ InTagAt(xml, k) THEN <<>>
    ELSE <<xml[k]>>

Scanned(xml) == Concat([k \in 1..Len(xml) |-> ScanPieceAt(xml, k)])

\* every maximal run of whitespace replaced by one space: a whitespace
\* character after a whitespace character goes, any other becomes a space
Collapsed(s) ==
    Concat([k \in 1..Len(s) |->
               IF ~IsSpace(s[k]) THEN <<s[k]>>
               ELSE IF k > 1 /\ IsSpace(s[k - 1]) THEN <<>>
               ELSE <<" ">>])

\* C6: on every input the extraction returns, and the text it returns is
\* the tag-state scan of the input with every maximal whitespace run
\* collapsed to one space; it holds no '<', no '>' and no two adjacent
\* whitespace characters; <p>Hello <b>World</b></p> gives " Hello World ".
C6_Markup ==
    /\ pc # "xml_segv"
    /\ pc = "xml_cleanup" => result = Scanned(arg)
    /\ pc = "xml_done" =>
           /\ out = Collapsed(Scanned(arg))
           /\ Positions(out, "<") = {} /\ Positions(out, ">") = {}
           /\ \A k \in 1..(Len(out) - 1) : ~(IsSpace(out[k]) /\ IsSpace(out[k + 1]))
           /\ \A k \in 1..Len(out) : IsSpace(out[k]) => out[k] = " "
           /\ arg = <<"<", "p", ">", "H", "e", "l", "l", "o", " ", "<", "b", ">",
                      "W", "o", "r", "l", "d", "<", "/", "b", ">", "<", "/", "p", ">">> =>
                  out = <<" ", "H", "e", "l", "l", "o", " ", "W", "o", "r", "l", "d", " ">>

---------------------------------------------------------------------------
(* C7: convertMarkdownToText *)

\* s holds the character d at positions from..from+n-1
HasRun(s, from, d, n) ==
    from + n - 1 <= Len(s) /\ \A k \in from..(from + n - 1) : s[k] = d

\* the first position >= from holding a character of stop, Len(s)+1 if none
NextOf(s, from, stop) ==
    IF \E k \in from..Len(s) : s[k] \in stop
        THEN CHOOSE k \in from..Len(s) :
                 s[k] \in stop /\ \A j \in from..(k - 1) : s[j] \notin stop
        ELSE Len(s) + 1

\* pass 1: a leading run of '#' with the whitespace after it, at position 0 only
StripHeader(s) ==
    IF s = <<>> \/ s[1] # "#" THEN s
    ELSE LET afterHashes == IF \E k \in 1..Len(s) : s[k] # "#"
                                THEN CHOOSE k \in 1..Len(s) :
                                         s[k] # "#" /\ \A j \in 1..(k - 1) : s[j] = "#"
                                ELSE Len(s) + 1
             rest == SubSeq(s, afterHashes, Len(s))
             afterSpace == IF \E k \in 1..Len(rest) : ~IsSpace(rest[k])
                               THEN CHOOSE k \in 1..Len(rest) :
                                        ~IsSpace(rest[k]) /\ \A j \in 1..(k - 1) : IsSpace(rest[j])
                               ELSE Len(rest) + 1
         IN  SubSeq(rest, afterSpace, Len(rest))

\* passes 2, 3, 5, 6: from position from on, every d^n X d^n, X a run of at
\* least least characters other than d, becomes X (keep) or nothing
RECURSIVE Unwrap(_, _, _, _, _, _)
Unwrap(s, from, d, n, least, keep) ==
    IF from > Len(s) THEN <<>>
    ELSE LET close == NextOf(s, from + n, {d})
         IN  IF /\ HasRun(s, from, d, n)
                /\ close - (from + n) >= least
                /\ HasRun(s, close, d, n)
                 THEN (IF keep THEN SubSeq(s, from + n, close - 1) ELSE <<>>)
                          \o Unwrap(s, close + n, d, n, least, keep)
                 ELSE <<s[from]>> \o Unwrap(s, from + 1, d, n, least, keep)

\* pass 4: from position from on, every [X](Y) becomes X
RECURSIVE Unlink(_, _)
Unlink(s, from) ==
    IF from > Len(s) THEN <<>>
    ELSE LET rb == NextOf(s, from + 1, {"]"})
             rp == NextOf(s, rb + 2, {")"})
         IN  IF /\ s[from] = "["
                /\ rb - (from + 1) >= 1
                /\ HasRun(s, rb, "]", 1)
                /\ HasRun(s, rb + 1, "(", 1)
                /\ rp - (rb + 2) >= 1
                /\ HasRun(s, rp, ")", 1)
                 THEN SubSeq(s, from + 1, rb - 1) \o Unlink(s, rp + 1)
                 ELSE <<s[from]>> \o Unlink(s, from + 1)

\* the n-th substitution of section 4.6
Substitution(n, s) ==
    CASE n = 1 -> StripHeader(s)
      [] n = 2 -> Unwrap(s, 1, "*", 2, 1, TRUE)
      [] n = 3 -> Unwrap(s, 1, "*", 1, 1, TRUE)
      [] n = 4 -> Unlink(s, 1)
      [] n = 5 -> Unwrap(s, 1, Backtick, 3, 0, FALSE)
      [] n = 6 -> Unwrap(s, 1, Backtick, 1, 1, TRUE)

\* substitutions 1..n applied one after the other, each to the whole output
\* of the one before
RECURSIVE Substituted(_, _)
Substituted(n, s) == IF n = 0 THEN s ELSE Substitution(n, Substituted(n - 1, s))

\* the '#' of s that belong to a run of '#' starting a line after the first
LaterHeaderHashes(s) ==
    {k \in 2..Len(s) :
        \E j \in 2..k : s[j - 1] = "\n" /\ \A m \in j..k : s[m] = "#"}

\* C7: on every input convertMarkdownToText returns, and what it returns is
\* substitutions 1..6 applied in order, each to the whole output of the one
\* before; every '#' run that starts a line after the first is still in the
\* returned content.
C7_LightMarkup ==
    /\ pc # "md_segv"
    /\ pc = "md_pass" => result = Substituted(i - 1, arg)
    /\ pc = "md_done" =>
           /\ out = Substituted(NumMdPasses, arg)
           /\ Cardinality(Positions(out, "#")) >= Cardinality(LaterHeaderHashes(arg))

=============================================================================
